---- MODULE Spec2Model ----
(***************************************************************************)
(* recitale: the incremental-build cache and the two-phase (scan, render)  *)
(* parallel thumbnail pipeline of recitale.py:main, with the sequential    *)
(* video and audio encoders that follow it.                                *)
(*                                                                         *)
(* One behaviour is a sequence of program runs over the same site: every   *)
(* run loads the persisted cache, assembles the pages (which fills the     *)
(* asset registries), runs the pipeline and dumps the cache.  Between two  *)
(* runs the environment may delete a derived file or touch a source.       *)
(***************************************************************************)
EXTENDS Integers, Sequences, FiniteSets, TLC

(***************************** bounds ***************************************)
MaxAssets == 2
NumThumbs == 2
Jobs == 2
MaxRuns == 2
MaxFaults == 1
MaxChanges == 1
MaxGets == 4
MaxOptChanges == 2

\* Asset ids of one registry; every asset has NumThumbs variants of a kind
\* (an image asset may also have none).
Imgs == 1..MaxAssets
Vids == 1..MaxAssets
Auds == 1..MaxAssets
Thumbs == 1..NumThumbs
Workers == 1..Jobs

\* Python's None: the value noncached_images returns for a cached asset and
\* the end-of-stream item of the queue (falsy, unlike an asset or a unit 1).
None == 0

(************************** paths and assets ********************************)
ImgSrc(a) == <<"img", a>>
ImgDst(a, v) == <<"build", "img", a, v>>

VidSrc(a) == <<"vid", a>>
VidReDst(a, v) == <<"build", "vid_re", a, v>>
VidThDst(a, v) == <<"build", "vid_th", a, v>>
AudSrc(a) == <<"aud", a>>
AudDst(a, v) == <<"build", "aud_re", a, v>>

ImgDsts == {ImgDst(a, v) : a \in Imgs, v \in Thumbs}
VidReDsts == {VidReDst(a, v) : a \in Vids, v \in Thumbs}
VidThDsts == {VidThDst(a, v) : a \in Vids, v \in Thumbs}
AudDsts == {AudDst(a, v) : a \in Auds, v \in Thumbs}

Range(s) == {s[i] : i \in DOMAIN s}

(************************** options and params ******************************)
\* SETTINGS["gm"], the global options of every image asset.
GmOptions(strip) ==
    [k \in {"quality", "auto-orient", "strip", "resize", "progressive"} |->
        CASE k = "quality" -> 75
          [] k = "auto-orient" -> TRUE
          [] k = "strip" -> strip
          [] k = "resize" -> 0
          [] k = "progressive" -> TRUE]

\* SETTINGS["ffmpeg"], the options of every video asset.
FfmpegOptions ==
    [k \in {"binary", "loglevel", "format", "resolution", "vbitrate",
            "abitrate", "audio", "video", "other", "extension"} |->
        CASE k = "binary" -> "ffmpeg"
          [] k = "loglevel" -> "error"
          [] k = "format" -> "webm"
          [] k = "resolution" -> "1280x720"
          [] k = "vbitrate" -> "3900k"
          [] k = "abitrate" -> "100k"
          [] k = "audio" -> "libvorbis"
          [] k = "video" -> "libvpx"
          [] k = "other" -> "-qmin 10 -qmax 42 -maxrate 500k -bufsize 1500k"
          [] k = "extension" -> "webm"]

\* SETTINGS["ffmpeg_audio"], the options of every audio asset.
FfmpegAudioOptions ==
    [k \in {"binary", "loglevel", "audio", "extension"} |->
        CASE k = "binary" -> "ffmpeg"
          [] k = "loglevel" -> "error"
          [] k = "audio" -> "libmp3lame"
          [] k = "extension" -> "mp3"]

Superficial == {"name", "exif", "text", "type", "size", "float", "resize"}

\* A cleaning that deletes no key.
RemoveNothing(options) == options

remove_superficial_options(options) ==
    [k \in (DOMAIN options) \ Superficial |-> options[k]]

\* The call remove_superficial_options(options): the mapping it returns, and
\* the argument as the call leaves it (the keys are deleted from a copy).
remove_superficial_call(options) ==
    [cleaned |-> remove_superficial_options(options), options |-> options]

\* The keys a page gives to one image besides the global options.
PerImage ==
    [k \in {"name", "text", "type", "size", "float", "exif"} |->
        CASE k = "size" -> 200
          [] OTHER -> k]

\* The Options Set of an image the pages gave keys of its own.
ImageOptions(global) ==
    [k \in (DOMAIN global) \cup (DOMAIN PerImage) |->
        IF k \in DOMAIN PerImage THEN PerImage[k] ELSE global[k]]

\* The options with another value for key k.
WithChanged(options, k) ==
    [options EXCEPT ![k] =
        CASE k \in {"strip", "auto-orient", "progressive"} -> ~options[k]
          [] k \in {"quality", "resize", "size"} -> options[k] + 15
          [] OTHER -> "changed"]

\* dict.get(key, default)
Get(d, k, default) == IF k \in DOMAIN d THEN d[k] ELSE default

\* del d[k], for a key that is present
Del(d, k) == [x \in (DOMAIN d) \ {k} |-> d[x]]

\* What Image.open gives for a source: exif is the value of the Orientation
\* tag 0x0112 (1 upright, 6 rotated), 0 for an image without EXIF metadata.
OpenedImage(exif) ==
    [format |-> "JPEG", dpi |-> 72, subsampling |-> 2, exif |-> exif]

image_params(img, options) ==
    LET keys == {"format"}
                \cup ({"progressive", "quality"} \cap DOMAIN options)
                \cup (IF img.dpi # 0 THEN {"dpi"} ELSE {})
                \cup (IF img.format \in {"JPEG", "MPO"} THEN {"subsampling"} ELSE {})
                \cup (IF img.exif # 0 THEN {"exif"} ELSE {})
    IN  [k \in keys |->
            CASE k = "format" -> img.format
              [] k = "progressive" -> options[k]
              [] k = "quality" -> options[k]
              [] k = "dpi" -> img.dpi
              [] k = "subsampling" -> img.subsampling
              [] k = "exif" -> img.exif]

\* params.get("exif") and base.options.get("strip", False): del params["exif"]
StripExif(params, options) ==
    IF Get(params, "exif", 0) # 0 /\ Get(options, "strip", FALSE)
    THEN Del(params, "exif")
    ELSE params

(****************************** cache store *********************************)
\* The fingerprint of one (source, derived path) pair.
Fingerprint(mtime, options, exists) ==
    [mtime |-> mtime,
     options |-> remove_superficial_options(options),
     exists |-> exists]

CacheKey(src, dst) == <<src, dst>>

needs_to_be_generated(cache, files, mtimes, src, dst, options) ==
    \/ dst \notin files
    \/ CacheKey(src, dst) \notin DOMAIN cache
    \/ cache[CacheKey(src, dst)] # Fingerprint(mtimes[src], options, dst \in files)

cache_picture(cache, files, mtimes, src, dst, options) ==
    LET key == CacheKey(src, dst)
        fp == Fingerprint(mtimes[src], options, dst \in files)
    IN  [k \in (DOMAIN cache) \cup {key} |-> IF k = key THEN fp ELSE cache[k]]

EmptyCache == [k \in {} |-> 0]

(**************************** asset registry ********************************)
\* A path is the sequence of its segments.  The galleries and the file names
\* the pages ask the registry for.
Galleries == {<<"gallery">>, <<"gallery1">>, <<"light", "..", "gallery">>}
Filenames == {<<"test.mp3">>, <<"test1.mp3">>, <<"light", "..", "test.mp3">>}
GetPairs == Galleries \X Filenames

\* A normalization that leaves the path as it is written.
NormalizeIdentity(path) == path

RECURSIVE Resolve(_, _)
\* The segments of rest are appended to done, a ".." taking back the segment
\* before it.
Resolve(done, rest) ==
    IF rest = <<>> THEN done
    ELSE IF Head(rest) = ".." /\ done # <<>> /\ done[Len(done)] # ".."
         THEN Resolve(SubSeq(done, 1, Len(done) - 1), Tail(rest))
         ELSE Resolve(Append(done, Head(rest)), Tail(rest))

\* The normalized form of a path: its ".." segments are resolved.
Normalize(path) == Resolve(<<>>, path)

\* The source path of a file of a gallery.
SourcePath(gallery, filename) == Normalize(gallery \o filename)

\* A registry that knows no path.
KnownNever(registry, path) == FALSE

\* The registry holds an asset for the path.
Known(registry, path) == path \in DOMAIN registry

\* The registry after get(gallery, filename), fresh being the instance that
\* is made when the path is new.
RegistryAfterGet(registry, gallery, filename, fresh) ==
    LET path == SourcePath(gallery, filename)
    IN  IF Known(registry, path) THEN registry
        ELSE [q \in (DOMAIN registry) \cup {path} |->
                 IF q = path THEN fresh ELSE registry[q]]

(******************************* pool.map ***********************************)
\* Pool.map cuts its iterable into chunks of ceil(len / (4 * processes))
\* items; a chunk is one task, run item by item by one worker.
ChunkSize(n) == (n + 4 * Jobs - 1) \div (4 * Jobs)

RECURSIVE Chunks(_, _)
Chunks(s, size) ==
    IF Len(s) = 0 THEN <<>>
    ELSE IF Len(s) <= size THEN <<s>>
    ELSE <<SubSeq(s, 1, size)>> \o Chunks(SubSeq(s, size + 1, Len(s)), size)

MapTasks(s) == Chunks(s, ChunkSize(Len(s)))

RECURSIVE SelectDirty(_, _)
\* [img for img in base_imgs if img]
SelectDirty(s, res) ==
    IF s = <<>> THEN <<>>
    ELSE (IF res[Head(s)] = "dirty" THEN <<Head(s)>> ELSE <<>>)
         \o SelectDirty(Tail(s), res)

(******************************** state *************************************)
VARIABLES
    run,        \* number of the current program run, 0 before the first
    cmd,        \* args.cmd of the current run
    mainpc,     \* position of the coordinating process in main()
    nImgs,      \* len(ImageFactory.base_imgs) once the pages are assembled
    nVids,      \* len(VideoFactory.base_vids)
    nAuds,      \* len(AudioFactory.base_audios)
    imgOptions, \* the Options Set of the image assets
    imgExif,    \* per image source: its EXIF orientation tag, 0 without EXIF
    nthumbs,    \* per image asset: how many thumbnails the pages registered
    binaryFound, \* shutil.which finds the video encoder (or its fallback)
    srcmtime,   \* per source: its modification time
    derived,    \* the derived files that exist under build/
    CACHE,      \* the cache store of the running program
    persisted,  \* the cache file on disk
    tasks,      \* chunks of the current pool.map not yet taken by a worker
    wpc,        \* per pool worker: idle, item, thumbs or dead
    wchunk,     \* per pool worker: the rest of its chunk, current item first
    wparams,    \* per pool worker: params of the asset being rendered
    wnext,      \* per pool worker: index of the next thumbnail to render
    scanRes,    \* per image asset: what noncached_images returned
    base_imgs,  \* main's list of dirty image assets
    mapFailed,  \* a worker raised during the current pool.map
    pbar_queue, \* the Manager queue shared by the workers and the aggregator
    pbarpc,     \* the handle_pbar process: none, run or done
    pbarN,      \* units the aggregator counted
    pbarTotal,  \* the aggregator's total
    vcur,       \* index of the video or audio asset main's loop is at
    vstep,      \* index of the next re-encode of that asset
    hist,       \* history of the current run (what was checked, saved, ...)
    faults,     \* failures the environment injected in the current run
    changes,    \* changes the environment made to the files
    prevOK,     \* the previous run's pipeline completed normally
    changed,    \* the environment changed a file since the previous run
    base_audios, \* AudioFactory.base_audios: source path -> asset instance
    got,        \* per (gallery, filename) pair: the instance get returned
    gets,       \* calls of AudioFactory.get so far
    optChanged, \* option keys whose value was changed since the last build
    cleaned,    \* the last call of remove_superficial_options: its argument
                \* after the call, and what it returned
    rpc,        \* render_thumbnails seen on its own: none, loop, save, raised
    img_size,   \* img.size of the opened source, <<width, height>>
    icc_profile, \* len(im.info.get("icc_profile", ""))
    turn,       \* thumbnails the loop of render_thumbnails is done with
    thumbnail_size, \* thumbnail.size of the variant the loop is at
    width,      \* the local width of render_thumbnails
    height,     \* the local height of render_thumbnails
    im_size,    \* im.size, the copy that is saved
    save_first, \* what the first im.save of the last variant raised
    out_size,   \* the size of the last derived file written, <<>> for none
    MAXBLOCK    \* ImageFile.MAXBLOCK of the worker process

vars == <<run, cmd, mainpc, nImgs, nVids, nAuds, imgOptions, imgExif, nthumbs,
          binaryFound,
          srcmtime, derived, CACHE, persisted, tasks, wpc, wchunk, wparams,
          wnext, scanRes, base_imgs, mapFailed, pbar_queue, pbarpc, pbarN,
          pbarTotal, vcur, vstep, hist, faults, changes, prevOK, changed,
          base_audios, got, gets, optChanged, cleaned, rpc, img_size,
          icc_profile, turn, thumbnail_size, width, height, im_size,
          save_first, out_size, MAXBLOCK>>

siteVars == <<nImgs, nVids, nAuds, imgOptions, imgExif, nthumbs, binaryFound>>
encVars == <<vcur, vstep>>
fsVars == <<srcmtime, derived, persisted>>
poolVars == <<tasks, wpc, wchunk, wparams, wnext, scanRes, base_imgs, mapFailed>>
pbarVars == <<pbarpc, pbarN, pbarTotal>>
regVars == <<base_audios, got, gets>>
optVars == <<optChanged, cleaned>>
rszVars == <<rpc, img_size, icc_profile, turn, thumbnail_size, width, height,
             im_size, save_first, out_size, MAXBLOCK>>
envVars == <<changes, prevOK, changed, regVars, optVars, rszVars>>
pipeVars == <<run, cmd, mainpc, siteVars, fsVars, CACHE, poolVars, pbar_queue,
              pbarVars, encVars, hist, faults, changes, prevOK, changed, optVars,
              rszVars>>

Sources == {ImgSrc(a) : a \in Imgs} \cup {VidSrc(a) : a \in Vids}
           \cup {AudSrc(a) : a \in Auds}

\* The sources of the registered assets.
Registered == {ImgSrc(a) : a \in 1..nImgs} \cup {VidSrc(a) : a \in 1..nVids}
              \cup {AudSrc(a) : a \in 1..nAuds}

EmptyHist ==
    [checked  |-> [p \in ImgDsts |-> "no"],   \* needs_to_be_generated at render
     attempts |-> [p \in ImgDsts |-> 0],      \* calls of im.save
     firstErr |-> [p \in ImgDsts |-> "none"], \* what the first save raised
     hadExif  |-> [p \in ImgDsts |-> FALSE],  \* "exif" in params at first save
     before   |-> {},     \* derived files that were there when the run began
     written  |-> {},     \* derived paths written with success
     recorded |-> {},     \* derived paths given to cache_picture
     scanned  |-> [a \in Imgs |-> 0],  \* needs_to_be_generated calls in scan
     handed   |-> [ph \in {"scan", "render"} |-> 0],
     units    |-> [ph \in {"scan", "render"} |-> 0],
     started  |-> {},     \* phases whose aggregator was started
     eos      |-> [ph \in {"scan", "render"} |-> 0], \* pbar_queue.put(None)
     cmds     |-> <<>>,   \* the external commands run, in order
     logs     |-> {},
     attempted |-> {},    \* sources subprocess.run was called for
     flushes  |-> 0,
     dumped   |-> {},     \* keys of the store cache_dump wrote
     raised   |-> {},     \* image assets whose worker call raised
     completed |-> {},    \* image assets whose render_thumbnails returned
     outcome  |-> "none"]

Init ==
    /\ run = 0
    /\ cmd = "build"
    /\ mainpc = "idle"
    /\ nImgs \in 0..MaxAssets
    /\ nVids \in 0..MaxAssets
    /\ nAuds \in 0..MaxAssets
    /\ nImgs + nVids + nAuds = MaxAssets
    /\ imgOptions \in {GmOptions(TRUE), GmOptions(FALSE)}
    /\ imgExif \in [Imgs -> {0, 6}]
    /\ \A a \in Imgs : a > nImgs => imgExif[a] = 0
    /\ nthumbs \in {[a \in Imgs |-> NumThumbs],
                    [a \in Imgs |-> IF a = nImgs THEN 0 ELSE NumThumbs]}
    \* a host without the encoder is told apart on the sites with a video:
    \* no other asset kind reaches a command that needs it
    /\ binaryFound \in (IF nVids > 0 THEN BOOLEAN ELSE {TRUE})
    /\ srcmtime = [s \in Sources |-> 1]
    /\ derived = {}
    /\ CACHE = EmptyCache
    /\ persisted = EmptyCache
    /\ tasks = <<>>
    /\ wpc = [w \in Workers |-> "dead"]
    /\ wchunk = [w \in Workers |-> <<>>]
    /\ wparams = [w \in Workers |-> EmptyCache]
    /\ wnext = [w \in Workers |-> 0]
    /\ scanRes = [a \in Imgs |-> "pending"]
    /\ base_imgs = <<>>
    /\ mapFailed = FALSE
    /\ pbar_queue = <<>>
    /\ pbarpc = "none"
    /\ pbarN = 0
    /\ pbarTotal = 0
    /\ vcur = 0
    /\ vstep = 0
    /\ hist = EmptyHist
    /\ faults = 0
    /\ changes = 0
    /\ prevOK = FALSE
    /\ changed = FALSE
    /\ base_audios = [q \in {AudSrc(a) : a \in 1..nAuds} |-> q[2]]
    /\ got = [x \in GetPairs |-> None]
    /\ gets = 0
    /\ optChanged = {}
    /\ cleaned = [options |-> EmptyCache, cleaned |-> EmptyCache]
    /\ rpc = "none"
    /\ img_size = <<>>
    /\ icc_profile = 0
    /\ turn = 0
    /\ thumbnail_size = <<>>
    /\ width = None
    /\ height = None
    /\ im_size = <<>>
    /\ save_first = "none"
    /\ out_size = <<>>
    /\ MAXBLOCK = 65536

(***************************** scan worker **********************************)
Stale(a, v, params) ==
    needs_to_be_generated(CACHE, derived, srcmtime, ImgSrc(a), ImgDst(a, v), params)

\* A scan that gives up at the first cached thumbnail.
ScanFirstOnly(a, v, params) ==
    IF v > nthumbs[a] THEN [ret |-> None, calls |-> v - 1]
    ELSE IF Stale(a, v, params) THEN [ret |-> a, calls |-> v]
    ELSE [ret |-> None, calls |-> v]

RECURSIVE ScanThumbs(_, _, _)
\* The loop of noncached_images from thumbnail v on: what the function
\* returns, and how many times it asked the cache.
ScanThumbs(a, v, params) ==
    IF v > nthumbs[a] THEN [ret |-> None, calls |-> v - 1]
    ELSE IF Stale(a, v, params) THEN [ret |-> a, calls |-> v]
    ELSE ScanThumbs(a, v + 1, params)

\* A scan that asks the cache with the options of the asset.
ScanOptions(a) == imgOptions

\* The params noncached_images asks the cache with.
ScanParams(a) ==
    StripExif(image_params(OpenedImage(imgExif[a]), imgOptions), imgOptions)

noncached_images(a) == ScanThumbs(a, 1, ScanParams(a))

\* The worker is done with the current item of its chunk.
NextItem(w) ==
    /\ wchunk' = [wchunk EXCEPT ![w] = Tail(@)]
    /\ wpc' = [wpc EXCEPT ![w] = IF Tail(wchunk[w]) = <<>> THEN "idle" ELSE "item"]

\* The worker's call raised: mapstar stops, the chunk's result is the exception.
ChunkRaised(w, a) ==
    /\ wchunk' = [wchunk EXCEPT ![w] = <<>>]
    /\ wpc' = [wpc EXCEPT ![w] = "idle"]
    /\ mapFailed' = TRUE

TakeChunk(w) ==
    /\ mainpc \in {"scan_map", "render_map"}
    /\ wpc[w] = "idle"
    /\ tasks # <<>>
    /\ wchunk' = [wchunk EXCEPT ![w] = Head(tasks)]
    /\ wpc' = [wpc EXCEPT ![w] = "item"]
    /\ tasks' = Tail(tasks)
    /\ UNCHANGED <<run, cmd, mainpc, siteVars, fsVars, CACHE, wparams, wnext,
                   scanRes, base_imgs, mapFailed, pbar_queue, pbarVars, encVars, hist,
                   faults, envVars>>

\* A scan worker that records the thumbnails it looked at.
ScanImageRecording(w) ==
    /\ mainpc = "scan_map"
    /\ wpc[w] = "item"
    /\ LET a == Head(wchunk[w])
           r == noncached_images(a)
       IN  /\ scanRes' = [scanRes EXCEPT ![a] = IF r.ret = a THEN "dirty" ELSE "clean"]
           /\ pbar_queue' = Append(pbar_queue, 1)
           /\ hist' = [hist EXCEPT !.units["scan"] = @ + 1,
                                   !.scanned[a] = r.calls]
           /\ CACHE' = IF r.calls > 0
                        THEN cache_picture(CACHE, derived, srcmtime, ImgSrc(a),
                                           ImgDst(a, r.calls), ScanParams(a))
                        ELSE CACHE
    /\ NextItem(w)
    /\ UNCHANGED <<run, cmd, mainpc, siteVars, fsVars, tasks, wparams,
                   wnext, base_imgs, mapFailed, pbarVars, encVars, faults, envVars>>

ScanImage(w) ==
    /\ mainpc = "scan_map"
    /\ wpc[w] = "item"
    /\ LET a == Head(wchunk[w])
           r == noncached_images(a)
       IN  /\ scanRes' = [scanRes EXCEPT ![a] = IF r.ret = a THEN "dirty" ELSE "clean"]
           /\ pbar_queue' = Append(pbar_queue, 1)
           /\ hist' = [hist EXCEPT !.units["scan"] = @ + 1,
                                   !.scanned[a] = r.calls]
    /\ NextItem(w)
    /\ UNCHANGED <<run, cmd, mainpc, siteVars, fsVars, CACHE, tasks, wparams,
                   wnext, base_imgs, mapFailed, pbarVars, encVars, faults, envVars>>

\* Image.open raises in noncached_images: nothing is put on the queue.
ScanRaise(w) ==
    /\ mainpc = "scan_map"
    /\ wpc[w] = "item"
    /\ faults < MaxFaults
    /\ faults' = faults + 1
    /\ LET a == Head(wchunk[w])
       IN  /\ scanRes' = [scanRes EXCEPT ![a] = "raised"]
           /\ hist' = [hist EXCEPT !.raised = @ \cup {a}]
           /\ ChunkRaised(w, a)
    /\ UNCHANGED <<run, cmd, mainpc, siteVars, fsVars, CACHE, tasks, wparams,
                   wnext, base_imgs, pbar_queue, pbarVars, encVars, envVars>>

(**************************** render worker *********************************)
\* render_thumbnails up to its loop: open, params, orientation, strip.
RenderOpen(w) ==
    /\ mainpc = "render_map"
    /\ wpc[w] = "item"
    /\ LET a == Head(wchunk[w])
           params == image_params(OpenedImage(imgExif[a]), imgOptions)
           exif == Get(params, "exif", 0)
           rotate == exif # 0 /\ Get(imgOptions, "auto-orient", FALSE) /\ exif # 1
       IN  \E transposeRaises \in BOOLEAN :
             /\ transposeRaises => (rotate /\ faults < MaxFaults)
             /\ faults' = IF transposeRaises THEN faults + 1 ELSE faults
             /\ LET fallback == transposeRaises /\ ~Get(imgOptions, "strip", FALSE)
                    p1 == IF fallback THEN Del(params, "exif") ELSE params
                IN  /\ wparams' = [wparams EXCEPT ![w] = StripExif(p1, imgOptions)]
                    /\ hist' = [hist EXCEPT !.logs =
                                  IF fallback THEN @ \cup {<<"warning", "transpose", a, 0>>}
                                  ELSE @]
    /\ wnext' = [wnext EXCEPT ![w] = 1]
    /\ wpc' = [wpc EXCEPT ![w] = "thumbs"]
    /\ UNCHANGED <<run, cmd, mainpc, siteVars, fsVars, CACHE, tasks, wchunk,
                   scanRes, base_imgs, mapFailed, pbar_queue, pbarVars, encVars, envVars>>

\* Image.open raises in render_thumbnails.
RenderOpenRaise(w) ==
    /\ mainpc = "render_map"
    /\ wpc[w] = "item"
    /\ faults < MaxFaults
    /\ faults' = faults + 1
    /\ hist' = [hist EXCEPT !.raised = @ \cup {Head(wchunk[w])}]
    /\ ChunkRaised(w, Head(wchunk[w]))
    /\ UNCHANGED <<run, cmd, mainpc, siteVars, fsVars, CACHE, tasks, wparams,
                   wnext, scanRes, base_imgs, pbar_queue, pbarVars, encVars, envVars>>

\* What im.save does on the first call and, when the handler retries, on the
\* second.
SaveOutcomes == {<<"ok", "none">>, <<"OSError", "ok">>, <<"OSError", "raise">>,
                 <<"TypeError", "ok">>, <<"TypeError", "raise">>,
                 <<"other", "none">>}

\* A handler that retries only after a TypeError.
RetriesTypeErrorOnly(first, params) ==
    first = "TypeError" /\ "exif" \in DOMAIN params

\* The handler of the first save's exception reaches its own im.save.
Retries(first, params) ==
    \/ first = "OSError"
    \/ first = "TypeError" /\ "exif" \in DOMAIN params

\* A handler that retries with the params it failed with.
ParamsKept(first, params) == params

\* The params the variant is saved and recorded with.
ParamsAfter(first, params) ==
    IF first = "TypeError" /\ "exif" \in DOMAIN params THEN Del(params, "exif")
    ELSE params

\* The variant is written: the first save returned, or the retry did.
Saved(first, second, params) ==
    \/ first = "ok"
    \/ Retries(first, params) /\ second = "ok"

\* A loop that never skips a thumbnail.
VariantNeverCached(a, v, params) == FALSE

\* if not CACHE.needs_to_be_generated(...): continue
VariantCached(a, v, params) == ~Stale(a, v, params)

\* cache_picture given the asset's options, as the media encoders do.
RecordedOptions(params, options) == options

\* The parameter set render_thumbnails gives to cache_picture.
RecordedParams(params, options) == params

\* One turn of the loop of render_thumbnails.
RenderThumb(w) ==
    /\ mainpc = "render_map"
    /\ wpc[w] = "thumbs"
    /\ wnext[w] <= nthumbs[Head(wchunk[w])]
    /\ LET a == Head(wchunk[w])
           v == wnext[w]
           dst == ImgDst(a, v)
           params == wparams[w]
           needs == IF Stale(a, v, params) THEN "stale" ELSE "cached"
       IN  IF VariantCached(a, v, params)
           THEN /\ hist' = [hist EXCEPT !.checked[dst] = needs]
                /\ wnext' = [wnext EXCEPT ![w] = v + 1]
                /\ UNCHANGED <<derived, CACHE, wparams, wpc, wchunk, mapFailed, faults>>
           ELSE \E o \in SaveOutcomes :
                  LET first == o[1]
                      second == o[2]
                      retried == first # "ok" /\ Retries(first, params)
                      saved == Saved(first, second, params)
                      p2 == ParamsAfter(first, params)
                      files == IF saved THEN derived \cup {dst} ELSE derived
                      warn == IF first = "OSError" THEN {<<"warning", "save", a, v>>}
                              ELSE IF first = "TypeError" THEN {<<"warning", "exif", a, v>>}
                              ELSE {}
                  IN  /\ first # "ok" => faults < MaxFaults
                      /\ faults' = IF first # "ok" THEN faults + 1 ELSE faults
                      /\ derived' = files
                      /\ wparams' = [wparams EXCEPT ![w] = p2]
                      /\ hist' = [hist EXCEPT
                            !.checked[dst] = needs,
                            !.attempts[dst] = IF retried THEN 2 ELSE 1,
                            !.firstErr[dst] = first,
                            !.hadExif[dst] = "exif" \in DOMAIN params,
                            !.written = IF saved THEN @ \cup {dst} ELSE @,
                            !.recorded = IF saved THEN @ \cup {dst} ELSE @,
                            !.logs = @ \cup warn,
                            !.raised = IF saved THEN @ ELSE @ \cup {a}]
                      /\ IF saved
                         THEN /\ CACHE' = cache_picture(CACHE, files, srcmtime,
                                                        ImgSrc(a), dst,
                                                        RecordedParams(p2, imgOptions))
                              /\ wnext' = [wnext EXCEPT ![w] = v + 1]
                              /\ UNCHANGED <<wpc, wchunk, mapFailed>>
                         ELSE /\ ChunkRaised(w, a)
                              /\ UNCHANGED <<CACHE, wnext>>
    /\ UNCHANGED <<run, cmd, mainpc, siteVars, srcmtime, persisted, tasks,
                   scanRes, base_imgs, pbar_queue, pbarVars, encVars, envVars>>

\* render_thumbnails.queue.put(1), after the loop.
RenderPut(w) ==
    /\ mainpc = "render_map"
    /\ wpc[w] = "thumbs"
    /\ wnext[w] > nthumbs[Head(wchunk[w])]
    /\ pbar_queue' = Append(pbar_queue, 1)
    /\ hist' = [hist EXCEPT !.units["render"] = @ + 1,
                            !.completed = @ \cup {Head(wchunk[w])}]
    /\ NextItem(w)
    /\ UNCHANGED <<run, cmd, mainpc, siteVars, fsVars, CACHE, tasks, wparams,
                   wnext, scanRes, base_imgs, mapFailed, pbarVars, encVars, faults, envVars>>

(************************* progress aggregator ******************************)
\* handle_pbar: while queue.get(): pbar.update()
PbarGet ==
    /\ pbarpc = "run"
    /\ pbar_queue # <<>>
    /\ pbar_queue' = Tail(pbar_queue)
    /\ IF Head(pbar_queue) = None
       THEN pbarpc' = "done" /\ UNCHANGED pbarN
       ELSE pbarN' = pbarN + 1 /\ UNCHANGED pbarpc
    /\ UNCHANGED <<run, cmd, mainpc, siteVars, fsVars, CACHE, poolVars,
                   pbarTotal, encVars, hist, faults, envVars>>

(****************************** main() **************************************)
\* get_settings: what it leaves in SETTINGS["ffmpeg"] and what it logs when
\* the video encoder is looked for.  VideoFactory.global_options was bound to
\* the options dict when the module was loaded and is not bound anew.
get_settings ==
    IF binaryFound
    THEN [ffmpeg |-> "options", global_options |-> FfmpegOptions, warnings |-> {}]
    ELSE [ffmpeg |-> "False", global_options |-> FfmpegOptions,
          warnings |-> {<<"warning", "binary", "ffmpeg", 0>>}]

\* ImageFactory.base_imgs.values(), in registration order
RegisteredImgs == [i \in 1..nImgs |-> i]

\* What a process of the program holds is gone when the program has ended.
ProcessState ==
    /\ CACHE' = EmptyCache
    /\ tasks' = <<>>
    /\ wpc' = [w \in Workers |-> "dead"]
    /\ wchunk' = [w \in Workers |-> <<>>]
    /\ wparams' = [w \in Workers |-> EmptyCache]
    /\ wnext' = [w \in Workers |-> 0]
    /\ scanRes' = [a \in Imgs |-> "pending"]
    /\ base_imgs' = <<>>
    /\ mapFailed' = FALSE
    /\ pbar_queue' = <<>>
    /\ pbarpc' = "none"
    /\ pbarN' = 0
    /\ pbarTotal' = 0
    /\ vcur' = 0
    /\ vstep' = 0
    /\ hist' = EmptyHist
    /\ faults' = 0

\* The program starts: the cache file is loaded, the arguments are parsed and
\* the pages are assembled, which registers the assets.
StartRun ==
    /\ mainpc = "idle"
    /\ run < MaxRuns
    /\ run' = run + 1
    /\ cmd' \in {"build", "test"}
    /\ mainpc' = "assembled"
    /\ CACHE' = persisted
    /\ hist' = [hist EXCEPT !.logs = @ \cup get_settings.warnings,
                            !.before = derived]
    /\ UNCHANGED <<siteVars, fsVars, tasks, wpc, wchunk, wparams, wnext,
                   scanRes, base_imgs, mapFailed, pbar_queue, pbarVars, encVars,
                   faults, envVars>>

\* The program has ended (or was killed, when a process of it still hangs).
EndRun ==
    /\ mainpc \in {"done", "exited"}
    /\ mainpc' = "idle"
    /\ ProcessState
    /\ prevOK' = (mainpc = "done" /\ hist.outcome = "normal")
    /\ changed' = FALSE
    /\ UNCHANGED <<run, cmd, siteVars, fsVars, changes, regVars, rszVars, optVars>>

\* A test command that leaves through the finally clause of the build.
TestExitFlush ==
    /\ mainpc = "assembled"
    /\ cmd = "test"
    /\ mainpc' = "finally"
    /\ UNCHANGED <<run, cmd, siteVars, fsVars, CACHE, poolVars, pbar_queue,
                   pbarVars, encVars, hist, faults, envVars>>

\* if DEFAULTS["test"] is True: sys.exit(0)
TestExit ==
    /\ mainpc = "assembled"
    /\ cmd = "test"
    /\ mainpc' = "exited"
    /\ UNCHANGED <<run, cmd, siteVars, fsVars, CACHE, poolVars, pbar_queue,
                   pbarVars, encVars, hist, faults, envVars>>

\* The pool is terminated when its with block is left: its workers are
\* killed, and their memory and the pool's task queue are gone.
PoolExit ==
    /\ wpc' = [w \in Workers |-> "dead"]
    /\ wchunk' = [w \in Workers |-> <<>>]
    /\ wparams' = [w \in Workers |-> EmptyCache]
    /\ wnext' = [w \in Workers |-> 0]
    /\ tasks' = <<>>

\* try: pbar_queue = Manager().Queue(); with Pool(...) as pool:
EnterTry ==
    /\ mainpc = "assembled"
    /\ cmd = "build"
    /\ \E started \in BOOLEAN :
         /\ ~started => faults < MaxFaults
         /\ faults' = IF started THEN faults ELSE faults + 1
         /\ mainpc' = IF started THEN "pool" ELSE "finally"
         /\ wpc' = IF started THEN [w \in Workers |-> "idle"] ELSE wpc
         /\ hist' = [hist EXCEPT !.outcome = IF started THEN @ ELSE "pool_failed"]
    /\ UNCHANGED <<run, cmd, siteVars, fsVars, CACHE, tasks, wchunk, wparams,
                   wnext, scanRes, base_imgs, mapFailed, pbar_queue, pbarVars,
                   encVars, envVars>>

\* pbar = Process(...); pbar.start(); pool.map(noncached_images, ...) begins
ScanDispatch ==
    /\ mainpc = "pool"
    /\ mainpc' = "scan_map"
    /\ pbarpc' = "run"
    /\ pbarN' = 0
    /\ pbarTotal' = Len(RegisteredImgs)
    /\ tasks' = MapTasks(RegisteredImgs)
    /\ hist' = [hist EXCEPT !.handed["scan"] = Len(RegisteredImgs),
                            !.started = @ \cup {"scan"}]
    /\ UNCHANGED <<run, cmd, siteVars, fsVars, CACHE, wpc, wchunk, wparams,
                   wnext, scanRes, base_imgs, mapFailed, pbar_queue, encVars,
                   faults, envVars>>

\* A join that does not wait for the aggregator.
JoinedNoWait == TRUE

\* pbar.join(): the aggregator process has ended.
Joined == pbarpc = "done"

\* A pool.map that returns when its last chunk was taken by a worker.
MapDoneEarly == tasks = <<>>

\* Every chunk of the current pool.map has its result.
MapDone ==
    /\ tasks = <<>>
    /\ \A w \in Workers : wpc[w] = "idle"

\* pool.map(noncached_images, ...) returns; pbar_queue.put(None)
ScanReturn ==
    /\ mainpc = "scan_map"
    /\ MapDone
    /\ ~mapFailed
    /\ mainpc' = "scan_join"
    /\ pbar_queue' = Append(pbar_queue, None)
    /\ hist' = [hist EXCEPT !.eos["scan"] = @ + 1]
    /\ UNCHANGED <<run, cmd, siteVars, fsVars, CACHE, poolVars, pbarVars, encVars,
                   faults, envVars>>

\* The exception of a worker ends the program with no finally clause run.
MapRaiseNoFinally ==
    /\ mainpc \in {"scan_map", "render_map"}
    /\ \A w \in Workers : wpc[w] = "idle"
    /\ tasks = <<>>
    /\ mapFailed
    /\ mainpc' = "done"
    /\ wpc' = [w \in Workers |-> "dead"]
    /\ wchunk' = [w \in Workers |-> <<>>]
    /\ wparams' = [w \in Workers |-> EmptyCache]
    /\ wnext' = [w \in Workers |-> 0]
    /\ tasks' = <<>>
    /\ hist' = [hist EXCEPT !.outcome = "worker_raised"]
    /\ UNCHANGED <<run, cmd, siteVars, fsVars, CACHE, scanRes, base_imgs,
                   mapFailed, pbar_queue, pbarVars, encVars, faults, envVars>>

\* pool.map re-raises the exception of a worker: the with block is left and
\* the pool terminated.
MapRaise ==
    /\ mainpc \in {"scan_map", "render_map"}
    /\ MapDone
    /\ mapFailed
    /\ mainpc' = "finally"
    /\ PoolExit
    /\ hist' = [hist EXCEPT !.outcome = "worker_raised"]
    /\ UNCHANGED <<run, cmd, siteVars, fsVars, CACHE, scanRes, base_imgs,
                   mapFailed, pbar_queue, pbarVars, encVars, faults, envVars>>

\* pbar.join(); base_imgs = [img for img in base_imgs if img]; if base_imgs:
\* the render aggregator is started and pool.map(render_thumbnails, ...) begins
ScanJoin ==
    /\ mainpc = "scan_join"
    /\ Joined
    /\ LET dirty == SelectDirty(RegisteredImgs, scanRes)
       IN  /\ base_imgs' = dirty
           /\ IF dirty # <<>>
              THEN /\ mainpc' = "render_map"
                   /\ pbarpc' = "run"
                   /\ pbarN' = 0
                   /\ pbarTotal' = Len(dirty)
                   /\ tasks' = MapTasks(dirty)
                   /\ mapFailed' = FALSE
                   /\ hist' = [hist EXCEPT !.handed["render"] = Len(dirty),
                                           !.started = @ \cup {"render"}]
                   /\ UNCHANGED <<wpc, wchunk, wparams, wnext, encVars>>
              ELSE /\ mainpc' = "videos"
                   /\ PoolExit
                   /\ vcur' = 1
                   /\ vstep' = 1
                   /\ UNCHANGED <<pbarVars, mapFailed, hist>>
    /\ UNCHANGED <<run, cmd, siteVars, fsVars, CACHE, scanRes, pbar_queue,
                   faults, envVars>>

\* pool.map(render_thumbnails, base_imgs) returns; pbar_queue.put(None)
RenderReturn ==
    /\ mainpc = "render_map"
    /\ MapDone
    /\ ~mapFailed
    /\ mainpc' = "render_join"
    /\ pbar_queue' = Append(pbar_queue, None)
    /\ hist' = [hist EXCEPT !.eos["render"] = @ + 1]
    /\ UNCHANGED <<run, cmd, siteVars, fsVars, CACHE, poolVars, pbarVars, encVars,
                   faults, envVars>>

\* pbar.join(); the with block of the pool ends
RenderJoin ==
    /\ mainpc = "render_join"
    /\ Joined
    /\ mainpc' = "videos"
    /\ PoolExit
    /\ vcur' = 1
    /\ vstep' = 1
    /\ UNCHANGED <<run, cmd, siteVars, fsVars, CACHE, scanRes, base_imgs,
                   mapFailed, pbar_queue, pbarVars, hist, faults, envVars>>

(********************** sequential media encoders ***************************)
\* subprocess.run raises FileNotFoundError when the binary of the command
\* does not exist.
CannotStart == ~binaryFound

\* An encoder that takes every variant for stale.
VidAlwaysStale(cache, files, a, dst) == TRUE

\* CACHE.needs_to_be_generated(base.filepath, str(filepath), base.options)
VidStale(cache, files, a, dst) ==
    needs_to_be_generated(cache, files, srcmtime, VidSrc(a), dst, FfmpegOptions)

\* subprocess.run(...).returncode of an external command: 0, or 1 for any
\* non-zero status, which the environment may produce while it has faults left
ReturnCodes == IF faults < MaxFaults THEN {0, 1} ELSE {0}

\* An encoder that takes every exit status for a success.
FailedNever(rc) == FALSE

\* subprocess.run(shlex.split(command)).returncode != 0
Failed(rc) == rc # 0

\* subprocess.run could not start the command: the exception leaves
\* render_video and the try block of main.
StartFails(src) ==
    /\ mainpc' = "finally"
    /\ hist' = [hist EXCEPT !.outcome = "encoder_raised",
                            !.attempted = @ \cup {src}]
    /\ UNCHANGED <<vcur, vstep, derived, CACHE, faults>>

\* render_video, one turn of its loop over base.reencodes
VideoReencode ==
    /\ mainpc = "videos"
    /\ vcur <= nVids
    /\ vstep <= NumThumbs
    /\ LET a == vcur
           dst == VidReDst(a, vstep)
       IN  IF ~VidStale(CACHE, derived, a, dst)
           THEN /\ vstep' = vstep + 1
                /\ UNCHANGED <<mainpc, vcur, derived, CACHE, hist, faults>>
           ELSE IF CannotStart THEN StartFails(VidSrc(a))
           ELSE \E rc \in ReturnCodes :
                  /\ faults' = IF Failed(rc) THEN faults + 1 ELSE faults
                  /\ mainpc' = mainpc
                  /\ IF Failed(rc)
                     THEN /\ vcur' = vcur + 1
                          /\ vstep' = 1
                          /\ hist' = [hist EXCEPT
                                !.cmds = Append(@, [src |-> VidSrc(a), outs |-> {dst}, rc |-> rc]),
                                !.attempted = @ \cup {VidSrc(a)},
                                !.logs = @ \cup {<<"error", "reencodes", VidSrc(a), vstep>>}]
                          /\ UNCHANGED <<derived, CACHE>>
                     ELSE /\ derived' = derived \cup {dst}
                          /\ CACHE' = cache_picture(CACHE, derived \cup {dst}, srcmtime,
                                                    VidSrc(a), dst, FfmpegOptions)
                          /\ vstep' = vstep + 1
                          /\ hist' = [hist EXCEPT
                                !.cmds = Append(@, [src |-> VidSrc(a), outs |-> {dst}, rc |-> rc]),
                                !.attempted = @ \cup {VidSrc(a)},
                                !.written = @ \cup {dst},
                                !.recorded = @ \cup {dst}]
                          /\ UNCHANGED vcur
    /\ UNCHANGED <<run, cmd, siteVars, srcmtime, persisted, poolVars,
                   pbar_queue, pbarVars, envVars>>

\* The thumbnails of video a that render_video finds stale, in order.
Uncached(a) ==
    SelectSeq([v \in 1..NumThumbs |-> v],
              LAMBDA v : VidStale(CACHE, derived, a, VidThDst(a, v)))

\* The value of the loop variable filepath once the loop over
\* base.thumbnails has ended: the path of the last thumbnail.
LastThumbPath(a) == VidThDst(a, NumThumbs)

\* The path the loop over uncached gives to cache_picture for a thumbnail.
ThumbRecordPath(a, v) == LastThumbPath(a)

RECURSIVE RecordThumbs(_, _, _, _)
\* for thumbnail in uncached: CACHE.cache_picture(...)
RecordThumbs(cache, files, a, uncached) ==
    IF uncached = <<>> THEN cache
    ELSE RecordThumbs(cache_picture(cache, files, srcmtime, VidSrc(a),
                                    ThumbRecordPath(a, Head(uncached)), FfmpegOptions),
                      files, a, Tail(uncached))

\* render_video after the re-encodes: one command for all stale thumbnails
VideoThumbs ==
    /\ mainpc = "videos"
    /\ vcur <= nVids
    /\ vstep = NumThumbs + 1
    /\ LET a == vcur
           uncached == Uncached(a)
           outs == {VidThDst(a, uncached[i]) : i \in DOMAIN uncached}
       IN  IF uncached = <<>>
           THEN /\ vcur' = vcur + 1
                /\ vstep' = 1
                /\ UNCHANGED <<mainpc, derived, CACHE, hist, faults>>
           ELSE IF CannotStart THEN StartFails(VidSrc(a))
           ELSE \E rc \in ReturnCodes :
                  /\ faults' = IF Failed(rc) THEN faults + 1 ELSE faults
                  /\ mainpc' = mainpc
                  /\ vcur' = vcur + 1
                  /\ vstep' = 1
                  /\ IF Failed(rc)
                     THEN /\ hist' = [hist EXCEPT
                                !.cmds = Append(@, [src |-> VidSrc(a), outs |-> outs, rc |-> rc]),
                                !.attempted = @ \cup {VidSrc(a)},
                                !.logs = @ \cup {<<"error", "thumbnails", VidSrc(a), 0>>}]
                          /\ UNCHANGED <<derived, CACHE>>
                     ELSE /\ derived' = derived \cup outs
                          /\ CACHE' = RecordThumbs(CACHE, derived \cup outs, a, uncached)
                          /\ hist' = [hist EXCEPT
                                !.cmds = Append(@, [src |-> VidSrc(a), outs |-> outs, rc |-> rc]),
                                !.attempted = @ \cup {VidSrc(a)},
                                !.written = @ \cup outs,
                                !.recorded = @ \cup {ThumbRecordPath(a, uncached[i]) :
                                                       i \in DOMAIN uncached}]
    /\ UNCHANGED <<run, cmd, siteVars, srcmtime, persisted, poolVars,
                   pbar_queue, pbarVars, envVars>>

\* the loop over VideoFactory.base_vids has ended
VideosDone ==
    /\ mainpc = "videos"
    /\ vcur > nVids
    /\ mainpc' = "audios"
    /\ vcur' = 1
    /\ vstep' = 1
    /\ UNCHANGED <<run, cmd, siteVars, fsVars, CACHE, poolVars, pbar_queue,
                   pbarVars, hist, faults, envVars>>

\* reencode_audio builds the command with shlex.quote(filepath), where
\* filepath is Path("build") / reencode.filepath: shlex.quote matches a
\* regular expression on its argument and raises TypeError on a Path.
QuoteRaises == TRUE

\* reencode_audio, one turn of its loop over base.reencodes
AudioReencode ==
    /\ mainpc = "audios"
    /\ vcur <= nAuds
    /\ LET a == vcur
           dst == AudDst(a, vstep)
           last == vstep = NumThumbs
       IN  IF ~needs_to_be_generated(CACHE, derived, srcmtime, AudSrc(a), dst,
                                     FfmpegAudioOptions)
           THEN \* logger.info("Skipped: ..."); return
                /\ vcur' = vcur + 1
                /\ vstep' = 1
                /\ UNCHANGED <<mainpc, derived, CACHE, hist, faults>>
           ELSE IF QuoteRaises
           THEN \* the TypeError leaves reencode_audio and the try block
                /\ mainpc' = "finally"
                /\ hist' = [hist EXCEPT !.outcome = "encoder_raised"]
                /\ UNCHANGED <<derived, CACHE, faults, vcur, vstep>>
           ELSE \E rc \in ReturnCodes :
                  /\ faults' = IF Failed(rc) THEN faults + 1 ELSE faults
                  /\ vcur' = IF Failed(rc) \/ last THEN vcur + 1 ELSE vcur
                  /\ vstep' = IF Failed(rc) \/ last THEN 1 ELSE vstep + 1
                  /\ mainpc' = mainpc
                  /\ IF Failed(rc)
                     THEN /\ hist' = [hist EXCEPT
                                !.cmds = Append(@, [src |-> AudSrc(a), outs |-> {dst}, rc |-> rc]),
                                !.attempted = @ \cup {AudSrc(a)},
                                !.logs = @ \cup {<<"error", "reencodes", AudSrc(a), vstep>>}]
                          /\ UNCHANGED <<derived, CACHE>>
                     ELSE /\ derived' = derived \cup {dst}
                          /\ CACHE' = cache_picture(CACHE, derived \cup {dst}, srcmtime,
                                                    AudSrc(a), dst, FfmpegAudioOptions)
                          /\ hist' = [hist EXCEPT
                                !.cmds = Append(@, [src |-> AudSrc(a), outs |-> {dst}, rc |-> rc]),
                                !.attempted = @ \cup {AudSrc(a)},
                                !.written = @ \cup {dst},
                                !.recorded = @ \cup {dst}]
    /\ UNCHANGED <<run, cmd, siteVars, srcmtime, persisted, poolVars,
                   pbar_queue, pbarVars, envVars>>

\* the loop over AudioFactory.base_audios has ended: the try block is left
AudiosDone ==
    /\ mainpc = "audios"
    /\ vcur > nAuds
    /\ mainpc' = "finally"
    /\ hist' = [hist EXCEPT !.outcome = "normal"]
    /\ UNCHANGED <<run, cmd, siteVars, fsVars, CACHE, poolVars, pbar_queue,
                   pbarVars, encVars, faults, envVars>>

\* render_video raises (subprocess.run cannot start the command): the
\* exception leaves the try block.
EncoderRaise ==
    /\ mainpc = "videos"
    /\ vcur <= nVids
    /\ faults < MaxFaults
    /\ faults' = faults + 1
    /\ mainpc' = "finally"
    /\ hist' = [hist EXCEPT !.outcome = "encoder_raised"]
    /\ UNCHANGED <<run, cmd, siteVars, fsVars, CACHE, poolVars, pbar_queue,
                   pbarVars, encVars, envVars>>

\* KeyboardInterrupt in the coordinating process, anywhere in the try block.
Interrupt ==
    /\ mainpc \in {"pool", "scan_map", "scan_join", "render_map", "render_join",
                   "videos", "audios"}
    /\ mainpc' = "finally"
    /\ PoolExit
    /\ hist' = [hist EXCEPT !.outcome = "interrupted"]
    /\ UNCHANGED <<run, cmd, siteVars, fsVars, CACHE, scanRes, base_imgs,
                   mapFailed, pbar_queue, pbarVars, encVars, faults, envVars>>

\* A finally clause that leaves the cache file as it was.
FinallyNoDump ==
    /\ mainpc = "finally"
    /\ mainpc' = "done"
    /\ hist' = [hist EXCEPT !.flushes = @ + 1, !.dumped = DOMAIN persisted]
    /\ UNCHANGED <<run, cmd, siteVars, fsVars, CACHE, poolVars, pbar_queue,
                   pbarVars, encVars, faults, envVars>>

\* finally: CACHE.cache_dump()
Finally ==
    /\ mainpc = "finally"
    /\ mainpc' = "done"
    /\ persisted' = CACHE
    /\ hist' = [hist EXCEPT !.flushes = @ + 1, !.dumped = DOMAIN CACHE]
    /\ UNCHANGED <<run, cmd, siteVars, srcmtime, derived, CACHE, poolVars,
                   pbar_queue, pbarVars, encVars, faults, envVars>>

(***************************** environment **********************************)
\* Between two runs, a derived file is deleted.
DeleteDerived ==
    /\ mainpc = "idle"
    /\ changes < MaxChanges
    /\ \E p \in derived : derived' = derived \ {p}
    /\ changes' = changes + 1
    /\ changed' = TRUE
    /\ UNCHANGED <<run, cmd, mainpc, siteVars, srcmtime, persisted, CACHE,
                   poolVars, pbar_queue, pbarVars, encVars, hist, faults, prevOK,
                   regVars, rszVars, optVars>>

\* Between two runs, a source file is modified.
TouchSource ==
    /\ mainpc = "idle"
    /\ changes < MaxChanges
    /\ \E s \in Registered : srcmtime' = [srcmtime EXCEPT ![s] = @ + 1]
    /\ changes' = changes + 1
    /\ changed' = TRUE
    /\ UNCHANGED <<run, cmd, mainpc, siteVars, derived, persisted, CACHE,
                   poolVars, pbar_queue, pbarVars, encVars, hist, faults, prevOK,
                   regVars, rszVars, optVars>>

Next ==
    \/ StartRun
    \/ EndRun
    \/ TestExit
    \/ EnterTry
    \/ ScanDispatch
    \/ \E w \in Workers : TakeChunk(w)
    \/ \E w \in Workers : ScanImage(w)
    \/ \E w \in Workers : ScanRaise(w)
    \/ ScanReturn
    \/ MapRaise
    \/ ScanJoin
    \/ \E w \in Workers : RenderOpen(w)
    \/ \E w \in Workers : RenderOpenRaise(w)
    \/ \E w \in Workers : RenderThumb(w)
    \/ \E w \in Workers : RenderPut(w)
    \/ RenderReturn
    \/ RenderJoin
    \/ VideoReencode
    \/ VideoThumbs
    \/ VideosDone
    \/ AudioReencode
    \/ AudiosDone
    \/ EncoderRaise
    \/ Interrupt
    \/ Finally
    \/ PbarGet
    \/ DeleteDerived
    \/ TouchSource

Spec == Init /\ [][Next]_vars

(************************ the registry on its own ***************************)
\* AudioFactory.get(gallery, filename): the asset of the source path, made
\* and registered when the path is asked for the first time.
AudioGet(gallery, filename) ==
    /\ gets < MaxGets
    /\ gets' = gets + 1
    /\ base_audios' = RegistryAfterGet(base_audios, gallery, filename, gets + 1)
    /\ got' = [got EXCEPT ![<<gallery, filename>>] =
                   base_audios'[SourcePath(gallery, filename)]]
    /\ UNCHANGED pipeVars

\* The registries are empty when the pages begin to be assembled.
RegistryInit ==
    /\ Init
    /\ nImgs = MaxAssets
    /\ imgOptions = GmOptions(TRUE)
    /\ imgExif = [a \in Imgs |-> 0]
    /\ nthumbs = [a \in Imgs |-> NumThumbs]
    /\ binaryFound

RegistryNext == \E gallery \in Galleries, filename \in Filenames :
                    AudioGet(gallery, filename)

RegistrySpec == RegistryInit /\ [][RegistryNext]_vars

(************************* the options on their own *************************)
\* The pages give the images keys of their own.
OptAssemble ==
    /\ run = 0
    /\ "name" \notin DOMAIN imgOptions
    /\ imgOptions' = ImageOptions(imgOptions)
    /\ UNCHANGED <<run, cmd, mainpc, nImgs, nVids, nAuds, imgExif, nthumbs,
                   binaryFound, fsVars, CACHE, poolVars, pbar_queue, pbarVars,
                   encVars, hist, faults, changes, prevOK, changed, regVars, rszVars,
                   optVars>>

\* A build that runs to its end with no failure, taken as one step: every
\* thumbnail of every image is written and recorded with the params of
\* render_thumbnails, and the cache is dumped.
OptBuild ==
    /\ run = 0
    /\ run' = 1
    /\ derived' = {ImgDst(a, v) : a \in 1..nImgs, v \in Thumbs}
    /\ CACHE' = [key \in {CacheKey(ImgSrc(a), ImgDst(a, v)) :
                              a \in 1..nImgs, v \in Thumbs} |->
                    Fingerprint(srcmtime[key[1]],
                                RecordedParams(ScanParams(key[2][3]), imgOptions),
                                TRUE)]
    /\ persisted' = CACHE'
    /\ prevOK' = TRUE
    /\ UNCHANGED <<cmd, mainpc, siteVars, srcmtime, poolVars, pbar_queue,
                   pbarVars, encVars, hist, faults, changes, changed, regVars, rszVars,
                   optVars>>

\* The user gives another value to one option key.
OptChange(k) ==
    /\ run = 1
    /\ k \in DOMAIN imgOptions
    /\ k \notin optChanged
    /\ Cardinality(optChanged) < MaxOptChanges
    /\ imgOptions' = WithChanged(imgOptions, k)
    /\ optChanged' = optChanged \cup {k}
    /\ UNCHANGED <<run, cmd, mainpc, nImgs, nVids, nAuds, imgExif, nthumbs,
                   binaryFound, fsVars, CACHE, poolVars, pbar_queue, pbarVars,
                   encVars, hist, faults, changes, prevOK, changed, regVars, rszVars,
                   cleaned>>

\* The scan of the next build: noncached_images for every image.
OptScan ==
    /\ run = 1
    /\ run' = 2
    /\ scanRes' = [a \in Imgs |->
                      IF a > nImgs THEN "pending"
                      ELSE IF noncached_images(a).ret = a THEN "dirty" ELSE "clean"]
    /\ UNCHANGED <<cmd, mainpc, siteVars, fsVars, CACHE, tasks, wpc, wchunk,
                   wparams, wnext, base_imgs, mapFailed, pbar_queue, pbarVars,
                   encVars, hist, faults, envVars>>

\* remove_superficial_options(options) is called on the options of the images.
OptClean ==
    /\ cleaned' = remove_superficial_call(imgOptions)
    /\ cleaned' # cleaned
    /\ UNCHANGED <<run, cmd, mainpc, siteVars, fsVars, CACHE, poolVars, pbar_queue,
                   pbarVars, encVars, hist, faults, changes, prevOK, changed, regVars, rszVars,
                   optChanged>>

OptionsInit ==
    /\ Init
    /\ nImgs = MaxAssets
    /\ nthumbs = [a \in Imgs |-> NumThumbs]

OptionsNext ==
    \/ OptAssemble
    \/ OptBuild
    \/ \E k \in DOMAIN imgOptions : OptChange(k)
    \/ OptScan
    \/ OptClean

OptionsSpec == OptionsInit /\ [][OptionsNext]_vars

(********************* render_thumbnails on its own *************************)
\* The sizes Image.open finds, the lengths of the ICC profiles, and the
\* sizes the pages ask thumbnails in: a dimension is a positive number of
\* pixels or None, and one of the two at least is set.
ImgSizes == {<<400, 300>>, <<300, 400>>, <<100, 100>>}
IccLens == {0, 560}
Dims == {None, 150, 200}
ThumbSizes == (Dims \X Dims) \ {<<None, None>>}

IGNORE_DIM == 65596

Max(a, b) == IF a >= b THEN a ELSE b

\* if not width or not height: the None of a size is replaced by IGNORE_DIM.
Bound(d) == IF d # None THEN d ELSE IGNORE_DIM

\* Image.thumbnail((x, y)) on an image of the given size: the sizes it may
\* leave the image with.  An image that fits is left alone; otherwise the
\* dimension that does not govern is the floor or the ceiling of what the
\* aspect ratio gives, at least 1.
Thumbnail(size, x, y) ==
    IF x >= size[1] /\ y >= size[2] THEN {size}
    ELSE IF x * size[2] >= size[1] * y
    THEN {<<Max(q, 1), y>> :
             q \in {(y * size[1]) \div size[2],
                    (y * size[1] + size[2] - 1) \div size[2]}}
    ELSE {<<x, Max(q, 1)>> :
             q \in {(x * size[2]) \div size[1],
                    (x * size[2] + size[1] - 1) \div size[1]}}

\* A retry that sets the buffer size to what the variant asks for.
BufferSet(current, w, h, icc) == (4 * w * h) + icc + 10

\* ImageFile.MAXBLOCK = max(ImageFile.MAXBLOCK, 4 * width * height + len(icc) + 10)
BufferAfterRetry(current, w, h, icc) == Max(current, (4 * w * h) + icc + 10)

\* img = Image.open(base.filepath); params = image_params(img, base.options)
OpenSource ==
    /\ rpc = "none"
    /\ rpc' = "loop"
    /\ img_size' \in ImgSizes
    /\ icc_profile' \in IccLens
    /\ UNCHANGED <<run, cmd, mainpc, siteVars, fsVars, CACHE, poolVars, pbar_queue,
                   pbarVars, encVars, hist, faults, changes, prevOK, changed, regVars,
                   optVars,
                   turn, thumbnail_size, width, height, im_size, save_first, out_size, MAXBLOCK>>

\* One turn of the loop for a stale variant, up to the first im.save:
\* im = img.copy(); width, height = thumbnail.size; and, when one of the
\* two is not set, the substitution and im.thumbnail((width, height)).
SizeVariant ==
    /\ rpc = "loop"
    /\ turn < NumThumbs
    /\ \E size \in ThumbSizes :
         /\ thumbnail_size' = size
         /\ IF size[1] = None \/ size[2] = None
            THEN /\ height' = Bound(size[2])
                 /\ width' = Bound(size[1])
                 /\ im_size' \in Thumbnail(img_size, width', height')
            ELSE /\ width' = size[1]
                 /\ height' = size[2]
                 /\ im_size' = img_size
    /\ rpc' = "save"
    /\ UNCHANGED <<run, cmd, mainpc, siteVars, fsVars, CACHE, poolVars, pbar_queue,
                   pbarVars, encVars, hist, faults, changes, prevOK, changed, regVars,
                   optVars,
                   img_size, icc_profile, turn, save_first, out_size, MAXBLOCK>>

\* The rest of the turn: im.save, the handlers of OSError and TypeError
\* with their retry, and the next thumbnail.
SaveVariant ==
    /\ rpc = "save"
    /\ \E o \in SaveOutcomes :
         LET first == o[1]
             second == o[2]
             params == image_params(OpenedImage(6), imgOptions)
             retrysize == IF width # None /\ height # None THEN <<width, height>>
                          ELSE thumbnail_size
         IN  /\ save_first' = first
             /\ MAXBLOCK' = IF first = "OSError"
                             THEN BufferAfterRetry(MAXBLOCK, retrysize[1],
                                                   retrysize[2], icc_profile)
                             ELSE MAXBLOCK
             /\ IF Saved(first, second, params)
                THEN /\ out_size' = im_size
                     /\ turn' = turn + 1
                     /\ rpc' = "loop"
                ELSE /\ out_size' = <<>>
                     /\ turn' = turn
                     /\ rpc' = "raised"
    /\ UNCHANGED <<run, cmd, mainpc, siteVars, fsVars, CACHE, poolVars, pbar_queue,
                   pbarVars, encVars, hist, faults, changes, prevOK, changed, regVars,
                   optVars,
                   img_size, icc_profile, thumbnail_size, width, height, im_size>>

ResizeInit ==
    /\ Init
    /\ nImgs = MaxAssets
    /\ imgOptions = GmOptions(FALSE)
    /\ imgExif = [a \in Imgs |-> 6]
    /\ nthumbs = [a \in Imgs |-> NumThumbs]

ResizeNext ==
    \/ OpenSource
    \/ SizeVariant
    \/ SaveVariant

ResizeSpec == ResizeInit /\ [][ResizeNext]_vars

(******************************* claims *************************************)
ImgOf(p) == p[3]
VariantOf(p) == p[4]

C2_FlushExactlyOnce ==
    /\ hist.flushes <= 1
    /\ (hist.flushes = 1) <=> (mainpc = "done")
    /\ hist.outcome # "none" => mainpc \in {"finally", "done"}
    /\ mainpc = "finally" => hist.outcome # "none" /\ ENABLED Finally
    /\ mainpc = "done" => /\ persisted = CACHE
                          /\ \A w \in Workers : wpc[w] = "dead"

\* A render worker raised, and the cache was flushed once all the same.
C2_Witness ==
    /\ mainpc = "done"
    /\ hist.outcome = "worker_raised"
    /\ hist.handed["render"] > 0
    /\ hist.flushes = 1

\* C3: in a run that follows a run whose pipeline completed normally, with
\* no file changed in between, the scan flags no image asset dirty, the
\* render phase is not started and no image variant is written.
C3_SecondRunRendersNothing ==
    (prevOK /\ ~changed) =>
        /\ \A a \in Imgs : scanRes[a] # "dirty"
        /\ mainpc \notin {"render_map", "render_join"}
        /\ hist.handed["render"] = 0
        /\ hist.written \cap ImgDsts = {}

\* The second run has scanned an asset the first run rendered, and went on
\* to the encoders.
C3_Witness ==
    /\ prevOK
    /\ ~changed
    /\ mainpc = "videos"
    /\ \E a \in 1..nImgs : /\ nthumbs[a] > 0
                           /\ scanRes[a] = "clean"
                           /\ hist.scanned[a] = nthumbs[a]

\* C4: a cache entry is recorded only for a derived path that was written
\* with success in the same run.
C4_RecordOnlyAfterWrite == hist.recorded \subseteq hist.written

\* C5: a failure while rendering one image asset does not abort the render
\* phase: the pipeline still completes and every other dirty asset is rendered.
C5_FailureIsolated ==
    (mainpc = "done" /\ hist.handed["render"] > 0 /\ hist.raised # {}
        /\ hist.outcome # "interrupted") =>
        /\ hist.outcome \in {"normal", "encoder_raised"}
        /\ \A i \in DOMAIN base_imgs :
              base_imgs[i] \notin hist.raised => base_imgs[i] \in hist.completed

\* C6: while the scan runs, an asset noncached_images returned is one with a
\* stale variant, found with as many cache checks as the first stale variant's
\* position; an asset it returned nothing for has every variant cached.
C6_ScanClassifies ==
    mainpc \in {"scan_map", "scan_join"} =>
        \A a \in 1..nImgs :
            LET stale == {v \in 1..nthumbs[a] : Stale(a, v, ScanParams(a))}
            IN  /\ scanRes[a] = "dirty" =>
                      /\ stale # {}
                      /\ \A v \in stale : hist.scanned[a] <= v
                      /\ hist.scanned[a] \in stale
                /\ scanRes[a] = "clean" =>
                      /\ stale = {}
                      /\ hist.scanned[a] = nthumbs[a]
                /\ scanRes[a] = "pending" => hist.scanned[a] = 0

\* The scan found the second variant of an asset stale after a cached first.
C6_Witness ==
    /\ mainpc = "scan_join"
    /\ \E a \in 1..nImgs : scanRes[a] = "dirty" /\ hist.scanned[a] = 2

\* C7: when render_thumbnails has returned for an asset, the variants it
\* wrote are exactly those the cache said needed regeneration at render
\* time, and every variant of the asset is cached in the store.
C7_RenderOnlyStale ==
    \A a \in hist.completed : \A v \in 1..nthumbs[a] :
        LET dst == ImgDst(a, v)
        IN  /\ hist.checked[dst] \in {"stale", "cached"}
            /\ (hist.checked[dst] = "stale") <=> (dst \in hist.written)
            /\ ~Stale(a, v, ScanParams(a))

\* An asset with a cached and a stale variant was rendered.
C7_Witness ==
    \E a \in hist.completed : \E v, u \in 1..nthumbs[a] :
        /\ hist.checked[ImgDst(a, v)] = "cached"
        /\ hist.checked[ImgDst(a, u)] = "stale"
        /\ ImgDst(a, u) \in hist.written

C8_State ==
    \A p \in ImgDsts :
        /\ hist.attempts[p] <= 2
        /\ hist.firstErr[p] = "OSError" =>
              /\ hist.attempts[p] = 2
              /\ <<"warning", "save", ImgOf(p), VariantOf(p)>> \in hist.logs
              /\ p \in hist.written =>
                    /\ p \in hist.recorded
                    /\ CacheKey(ImgSrc(ImgOf(p)), p) \in DOMAIN CACHE

C8_Step ==
    \A w \in Workers : \A p \in ImgDsts :
        (/\ wpc[w] = "thumbs"
         /\ Head(wchunk[w]) = ImgOf(p)
         /\ wnext[w] = VariantOf(p)
         /\ hist.attempts[p] = 0
         /\ hist'.firstErr[p] = "OSError"
         /\ p \in hist'.written)
        => /\ wpc'[w] = "thumbs"
           /\ wchunk'[w] = wchunk[w]
           /\ wnext'[w] = VariantOf(p) + 1
           /\ mapFailed' = mapFailed
           /\ mainpc' = mainpc

\* C8: a save that raises OSError is retried exactly once (a variant is
\* saved at most twice), the failure is logged, and when the retry succeeds
\* the variant is recorded and the worker goes on to the next variant.
C8_BufferRetry == []C8_State /\ [][C8_Step]_vars

\* A save raised OSError, its retry succeeded and the variant was recorded.
C8_Witness ==
    \E p \in ImgDsts :
        /\ hist.firstErr[p] = "OSError"
        /\ hist.attempts[p] = 2
        /\ p \in hist.recorded

C9_State ==
    \A p \in ImgDsts :
        hist.firstErr[p] = "TypeError" =>
            /\ <<"warning", "exif", ImgOf(p), VariantOf(p)>> \in hist.logs
            /\ hist.hadExif[p] =>
                  /\ hist.attempts[p] = 2
                  /\ p \in hist.written =>
                        /\ p \in hist.recorded
                        /\ CacheKey(ImgSrc(ImgOf(p)), p) \in DOMAIN CACHE
            /\ ~hist.hadExif[p] =>
                  /\ hist.attempts[p] = 1
                  /\ p \notin hist.written
                  /\ ImgOf(p) \in hist.raised

C9_Step ==
    \A w \in Workers : \A p \in ImgDsts :
        (/\ wpc[w] = "thumbs"
         /\ Head(wchunk[w]) = ImgOf(p)
         /\ wnext[w] = VariantOf(p)
         /\ hist.attempts[p] = 0
         /\ hist'.firstErr[p] = "TypeError"
         /\ p \in hist'.written)
        => /\ "exif" \in DOMAIN wparams[w]
           /\ "exif" \notin DOMAIN wparams'[w]
           /\ wpc'[w] = "thumbs"
           /\ wchunk'[w] = wchunk[w]
           /\ wnext'[w] = VariantOf(p) + 1
           /\ mapFailed' = mapFailed

C10_OneUnitPerAsset ==
    /\ mainpc \in {"scan_join", "render_map", "render_join", "videos", "audios"}
          => hist.units["scan"] = hist.handed["scan"]
    /\ hist.outcome \in {"normal", "worker_raised", "encoder_raised"}
          => \A ph \in {"scan", "render"} : hist.units[ph] = hist.handed[ph]

\* Units of a phase still on the channel.
UnitsQueued == Len(SelectSeq(pbar_queue, LAMBDA x : x # None))

\* The coordinator has left the phase.
PhaseLeft(ph) ==
    /\ ph \in hist.started
    /\ ph = "scan" => mainpc # "scan_map"
    /\ ph = "render" => mainpc # "render_map"

\* C11: in each phase (of a run the user does not interrupt) the dispatcher
\* puts the end-of-stream signal exactly once, and only when every worker of
\* the phase has put its unit; the units precede the signal on the channel,
\* and the aggregator that has terminated has counted the phase total.
C11_SignalOncePerPhase ==
    /\ \A ph \in {"scan", "render"} :
          /\ hist.eos[ph] <= 1
          /\ hist.eos[ph] = 1 => hist.units[ph] = hist.handed[ph]
          /\ (PhaseLeft(ph) /\ hist.outcome # "interrupted") => hist.eos[ph] = 1
    /\ \A i \in 1..(Len(pbar_queue) - 1) : pbar_queue[i] # None
    /\ pbarpc = "done" => pbarN = pbarTotal

\* The phase the aggregator is counting, once one was started.
CurrentPhase == IF "render" \in hist.started THEN "render" ELSE "scan"

\* C12: the render aggregator is started only when the scan aggregator has
\* consumed its end-of-stream signal and the channel is empty; the scan total
\* is the number of registered image assets and the render total the number
\* of assets flagged dirty; what an aggregator has counted and what is left
\* on the channel are the units of its own phase, and a count never exceeds
\* its total.
C12_PhasesSequential ==
    /\ "render" \in hist.started =>
          /\ hist.eos["scan"] = 1
          /\ hist.units["scan"] = nImgs
          /\ pbarTotal = Cardinality({a \in Imgs : scanRes[a] = "dirty"})
          /\ pbarTotal = Len(base_imgs)
    /\ (hist.started = {"scan"}) => pbarTotal = nImgs
    /\ hist.started # {} =>
          /\ pbarN + UnitsQueued = hist.units[CurrentPhase]
          /\ pbarN <= pbarTotal

\* The render aggregator has counted a unit while the scan is long over.
C12_Witness ==
    /\ mainpc = "render_map"
    /\ hist.units["scan"] = 2
    /\ pbarN = 1
    /\ pbarTotal = 2

\* C13: after a video thumbnail command has exited with status 0, every
\* thumbnail path the command wrote has an entry in the cache store.
C13_EachThumbRecorded ==
    \A i \in DOMAIN hist.cmds :
        LET c == hist.cmds[i]
        IN  (c.rc = 0 /\ c.outs \subseteq VidThDsts) =>
                \A p \in c.outs : CacheKey(c.src, p) \in DOMAIN CACHE

C15_State ==
    \A i \in DOMAIN hist.cmds :
        LET c == hist.cmds[i]
        IN  c.rc # 0 =>
              /\ \E l \in hist.logs : l[1] = "error" /\ l[3] = c.src
              /\ c.outs \cap hist.recorded = {}
              /\ c.outs \cap hist.written = {}
              /\ \A j \in DOMAIN hist.cmds : j > i => hist.cmds[j].src # c.src

C15_Step ==
    (/\ Len(hist'.cmds) = Len(hist.cmds) + 1
     /\ hist'.cmds[Len(hist'.cmds)].rc # 0)
    => /\ CACHE' = CACHE
       /\ derived' = derived
       /\ mainpc' = mainpc
       /\ vcur' = vcur + 1
       /\ vstep' = 1

MeantBy(x) == <<x[1][Len(x[1])], x[2][Len(x[2])]>>

Requested == {x \in GetPairs : got[x] # None}

\* C16: two lookups return the same instance if and only if their pairs
\* stand for the same gallery and the same file name once ".." is resolved.
C16_SameInstanceIffSamePath ==
    \A x, y \in Requested : (got[x] = got[y]) <=> (MeantBy(x) = MeantBy(y))

\* The same file was asked for under two spellings of its path, and a file
\* of the same name in another gallery.
C16_Witness ==
    /\ got[<<<<"gallery">>, <<"test.mp3">>>>] # None
    /\ got[<<<<"light", "..", "gallery">>, <<"light", "..", "test.mp3">>>>] # None
    /\ got[<<<<"gallery1">>, <<"test.mp3">>>>] # None

C17_State ==
    /\ Cardinality(DOMAIN base_audios) = Cardinality({MeantBy(x) : x \in Requested})
    /\ \A x \in Requested : \E q \in DOMAIN base_audios : base_audios[q] = got[x]

C17_Step ==
    gets' = gets + 1 =>
        /\ \A q \in DOMAIN base_audios :
              q \in DOMAIN base_audios' /\ base_audios'[q] = base_audios[q]
        /\ {MeantBy(x) : x \in Requested'} = {MeantBy(x) : x \in Requested}
              => base_audios' = base_audios

\* C17: the registry holds one entry per distinct source path asked for so
\* far, every instance get returned is a value of the registry, and a lookup
\* that is repeated adds no entry and replaces none.
C17_OneEntryPerPath == [](gets > 0 => C17_State) /\ [][C17_Step]_vars

\* A lookup was repeated and the registry still holds a single entry.
C17_Witness ==
    /\ gets = 3
    /\ Cardinality(Requested) = 2
    /\ Cardinality(DOMAIN base_audios) = 1

\* C18: in a run on a host where the video encoder is not found, the
\* warning is logged and subprocess.run is called for no video or audio
\* asset.
C18_MissingBinarySkipsMedia ==
    (~binaryFound /\ mainpc \notin {"idle"}) =>
        /\ <<"warning", "binary", "ffmpeg", 0>> \in hist.logs
        /\ hist.attempted = {}

\* C19: at the scan that follows a build, an image is flagged dirty exactly
\* when the value of one of the keys quality, progressive, strip or
\* auto-orient of its Options Set was changed in between.
C19_NonSuperficialChangeDirties ==
    run = 2 =>
        \A a \in 1..nImgs :
            (scanRes[a] = "dirty") <=>
                (optChanged \cap {"quality", "progressive", "strip", "auto-orient"} # {})

\* C20: what remove_superficial_options returned holds none of the keys name,
\* exif, text, type, size, float, resize and agrees with its argument on all
\* other keys; cleaning the result again gives the result.
C20_CleanedOptions ==
    cleaned.options # EmptyCache =>
        /\ DOMAIN cleaned.cleaned =
              (DOMAIN cleaned.options)
                  \ {"name", "exif", "text", "type", "size", "float", "resize"}
        /\ \A k \in DOMAIN cleaned.cleaned : cleaned.cleaned[k] = cleaned.options[k]
        /\ remove_superficial_options(cleaned.cleaned) = cleaned.cleaned

\* The argument is after the call what it was before.
C20_Step == cleaned' # cleaned => cleaned'.options = imgOptions

\* C20: remove_superficial_options returns its argument without the seven
\* superficial keys, leaves the argument unchanged and is idempotent.
C20_RemoveSuperficial == []C20_CleanedOptions /\ [][C20_Step]_vars

\* The options of an image with keys of its own were cleaned.
C20_Witness ==
    /\ {"name", "exif", "text", "type", "size", "float", "resize"}
          \subseteq DOMAIN cleaned.options
    /\ "quality" \in DOMAIN cleaned.cleaned

IsAudio(src) == src[1] = "aud"

\* While the coordinating process is in one of the encoder loops, the pool is
\* terminated, both aggregators have ended and each phase that was started
\* got its end-of-stream signal; no audio command comes before a video one.
C21_State ==
    /\ mainpc \in {"videos", "audios"} =>
          /\ \A w \in Workers : wpc[w] = "dead" /\ wchunk[w] = <<>>
          /\ tasks = <<>>
          /\ pbarpc = "done"
          /\ "scan" \in hist.started /\ hist.eos["scan"] = 1
          /\ ("render" \in hist.started) <=> (base_imgs # <<>>)
          /\ "render" \in hist.started => hist.eos["render"] = 1
    /\ \A i, j \in DOMAIN hist.cmds :
          (i < j /\ IsAudio(hist.cmds[i].src)) => IsAudio(hist.cmds[j].src)

\* The video loop is entered from a join that found every worker idle and
\* the aggregator ended, the audio loop from the end of the video loop, and
\* a step runs at most one command, for the asset its loop is at.
C21_Step ==
    /\ (mainpc' = "videos" /\ mainpc # "videos") =>
          /\ mainpc \in {"scan_join", "render_join"}
          /\ \A w \in Workers : wpc[w] = "idle" /\ wchunk[w] = <<>>
          /\ tasks = <<>> /\ ~mapFailed
          /\ pbarpc = "done"
    /\ (mainpc' = "audios" /\ mainpc # "audios") =>
          mainpc = "videos" /\ vcur > nVids
    /\ Len(hist'.cmds) > Len(hist.cmds) =>
          /\ mainpc \in {"videos", "audios"}
          /\ Len(hist'.cmds) = Len(hist.cmds) + 1
          /\ hist'.cmds[Len(hist'.cmds)].src =
                IF mainpc = "videos" THEN VidSrc(vcur) ELSE AudSrc(vcur)

C22_ResizedToTarget ==
    (rpc = "loop" /\ out_size # <<>>) =>
        /\ width = (IF thumbnail_size[1] # None THEN thumbnail_size[1] ELSE 65596)
        /\ height = (IF thumbnail_size[2] # None THEN thumbnail_size[2] ELSE 65596)
        /\ thumbnail_size[1] # None => out_size[1] <= thumbnail_size[1]
        /\ thumbnail_size[2] # None => out_size[2] <= thumbnail_size[2]

\* While the scan is under way the cache is the cache that was loaded.
C23_State ==
    mainpc \in {"scan_map", "scan_join"} => CACHE = persisted

\* No step of the scan phase, from the start of its aggregator to the join,
\* changes the cache, the cache file or a derived file.
C23_Step ==
    (mainpc \in {"pool", "scan_map", "scan_join"}
     /\ mainpc' \in {"scan_map", "scan_join", "render_map", "videos"}) =>
        /\ CACHE' = CACHE
        /\ derived' = derived
        /\ persisted' = persisted

\* C23: the scan phase changes neither the cache store nor a derived file,
\* whatever noncached_images returns for the assets.
C23_ScanChangesNothing == []C23_State /\ [][C23_Step]_vars

\* A scan over a filled cache is over, with a dirty and a clean asset.
C23_Witness ==
    /\ mainpc = "scan_join"
    /\ CACHE # EmptyCache
    /\ \E a, b \in 1..nImgs : scanRes[a] = "dirty" /\ scanRes[b] = "clean"

\* C24: unless the run is interrupted from outside, the coordinating
\* process is past a pool phase only when the aggregator of that phase has
\* had its end-of-stream signal and ended: none is left waiting on the queue.
C24_AggregatorEnds ==
    (hist.outcome # "interrupted"
     /\ mainpc \notin {"scan_map", "scan_join", "render_map", "render_join"}) =>
        pbarpc # "run"

\* Two parameter sets that differ at most in the key exif.
SameButExif(p, q) ==
    /\ (DOMAIN p) \ {"exif"} = (DOMAIN q) \ {"exif"}
    /\ \A k \in (DOMAIN p) \ {"exif"} : p[k] = q[k]

\* An image variant recorded in this run is not stale for the scan.
C25_State ==
    \A a \in 1..nImgs : \A v \in 1..nthumbs[a] :
        ImgDst(a, v) \in hist.recorded => ~Stale(a, v, ScanParams(a))

\* When a render worker records a variant, the params it ends the turn with,
\* which are those it gave to cache_picture, differ from the params of the
\* scan at most in exif, and the entry is the one the scan would compare with.
C25_Step ==
    \A a \in 1..nImgs : \A v \in 1..nthumbs[a] :
        (ImgDst(a, v) \in hist'.recorded /\ ImgDst(a, v) \notin hist.recorded) =>
            \E w \in Workers :
                /\ wpc[w] = "thumbs" /\ Head(wchunk[w]) = a /\ wnext[w] = v
                /\ SameButExif(wparams'[w], ScanParams(a))
                /\ CACHE'[CacheKey(ImgSrc(a), ImgDst(a, v))] =
                      Fingerprint(srcmtime[ImgSrc(a)], ScanParams(a), TRUE)

\* C25: the params of the scan and the params render records a variant with
\* differ at most in exif, so a variant render has recorded is cached for a
\* scan of the unchanged asset.
C25_ScanRenderParamsAgree == []C25_State /\ [][C25_Step]_vars

\* A variant was recorded without the exif the scan asks with.
C25_Witness ==
    \E a \in 1..nImgs : \E v \in 1..nthumbs[a] :
        /\ ImgDst(a, v) \in hist.recorded
        /\ hist.firstErr[ImgDst(a, v)] = "TypeError"
        /\ "exif" \in DOMAIN ScanParams(a)

\* The commands render_video ran for video a in this run, in order.
VidCmds(a) == SelectSeq(hist.cmds, LAMBDA c : c.src = VidSrc(a))

\* render_video(a) has returned.
VideoReturned(a) ==
    \/ mainpc = "videos" /\ vcur > a
    \/ mainpc = "audios"

\* The variant was stale when render_video was called: it is stale for the
\* cache the run loaded and the files that were there when the run began.
StaleAtCall(a, dst) ==
    needs_to_be_generated(persisted, hist.before, srcmtime, VidSrc(a), dst,
                          FfmpegOptions)

\* The number of commands the stale variants of video a ask for.
CommandsDue(a) ==
    Cardinality({v \in Thumbs : StaleAtCall(a, VidReDst(a, v))})
    + (IF \E v \in Thumbs : StaleAtCall(a, VidThDst(a, v)) THEN 1 ELSE 0)

C26_State ==
    \A a \in 1..nVids :
        LET cmds == VidCmds(a)
        IN  /\ \A i \in DOMAIN cmds : i < Len(cmds) => cmds[i].rc = 0
            /\ VideoReturned(a) =>
                  /\ Len(cmds) <= CommandsDue(a)
                  /\ (\A i \in DOMAIN cmds : cmds[i].rc = 0) =>
                        Len(cmds) = CommandsDue(a)

\* A step of render_video runs a command exactly for a stale variant it can
\* start the encoder for; with nothing stale it runs none and records
\* nothing; the command for the thumbnails names the stale thumbnails.
C26_Step ==
    (mainpc = "videos" /\ vcur <= nVids /\ mainpc' = "videos") =>
        LET a == vcur
            same == /\ hist'.cmds = hist.cmds
                    /\ hist'.recorded = hist.recorded
                    /\ CACHE' = CACHE
                    /\ derived' = derived
            ran == Len(hist'.cmds) > Len(hist.cmds)
            last == hist'.cmds[Len(hist'.cmds)]
        IN  IF vstep <= NumThumbs
            THEN LET dst == VidReDst(a, vstep)
                 IN  /\ ran => (VidStale(CACHE, derived, a, dst) /\ last.outs = {dst})
                     /\ ~VidStale(CACHE, derived, a, dst) => same
            ELSE LET stale == {VidThDst(a, v) : v \in
                                 {u \in Thumbs : VidStale(CACHE, derived, a, VidThDst(a, u))}}
                 IN  /\ ran => (stale # {} /\ last.outs = stale)
                     /\ stale = {} => same

C27_State ==
    (cmd = "test" /\ mainpc # "idle") =>
        /\ mainpc \in {"assembled", "exited"}
        /\ \A w \in Workers : wpc[w] = "dead"
        /\ pbarpc = "none"
        /\ hist.started = {}
        /\ hist.cmds = <<>> /\ hist.attempted = {}
        /\ hist.written = {} /\ hist.recorded = {}
        /\ hist.flushes = 0
        /\ CACHE = persisted
        /\ derived = hist.before

C27_Step ==
    (cmd' = "test" /\ mainpc # "idle") =>
        /\ persisted' = persisted
        /\ derived' = derived

\* C27: the test command exits after the pages are assembled, with no pool,
\* no scan, render or encoder step and no flush of the cache: the cache
\* file and the derived files are left as they were.
C27_TestChangesNothing == []C27_State /\ [][C27_Step]_vars

\* The test command has exited on a site that was built before.
C27_Witness ==
    /\ cmd = "test"
    /\ mainpc = "exited"
    /\ persisted # EmptyCache
    /\ derived # {}

\* What the claim asks of the buffer after a retry for the variant the loop
\* is at: 4 * width * height + len(icc_profile) + 10, with the bounds of the
\* resize when a dimension is not set and the target size otherwise.
BufferNeeded ==
    LET size == IF thumbnail_size[1] = None \/ thumbnail_size[2] = None
                THEN <<width, height>>
                ELSE thumbnail_size
    IN  (4 * size[1] * size[2]) + icc_profile + 10

\* After a turn whose first save raised OSError the buffer is large enough.
C28_State ==
    (rpc \in {"loop", "raised"} /\ save_first = "OSError") =>
        /\ MAXBLOCK >= BufferNeeded
        /\ width \in Nat \ {0} /\ height \in Nat \ {0}

C28_Step == MAXBLOCK' >= MAXBLOCK

\* C28: ImageFile.MAXBLOCK never decreases, and after a buffer-size retry
\* it is at least 4 * width * height + len(icc_profile) + 10 for the
\* variant's bounds or target size.
C28_BufferMonotone == []C28_State /\ [][C28_Step]_vars

\* A second retry kept a buffer larger than the variant asked for.
C28_Witness ==
    /\ rpc = "loop"
    /\ turn = 2
    /\ save_first = "OSError"
    /\ MAXBLOCK > BufferNeeded
    /\ BufferNeeded > 65536

====
